---- MODULE Spec2Model ----
(***************************************************************************)
(* Model of notebooks/12-parameters-and-widgets.ipynb.                     *)
(*                                                                         *)
(* The notebook declares the stream class StyleOptions (three validated    *)
(* parameters), creates one instance per demonstration cell, hands each    *)
(* instance to a widget panel and, in the linking and layout cells, to a   *)
(* DynamicMap whose callback restyles a curve.                             *)
(*                                                                         *)
(* alpha is a fraction; it is kept here in tenths (8 is 0.8, 10 is 1.0).   *)
(* The behaviour of the calls the notebook makes into param, holoviews,    *)
(* paramnb and parambokeh follows the contracts the notebook relies on:    *)
(* a parameter validates on every set, Stream.event updates and then       *)
(* triggers the subscribers with the stream's contents, a widget handler   *)
(* sets the parameter and then calls the callback it was given.            *)
(***************************************************************************)
EXTENDS Integers, Sequences, FiniteSets, TLC

VARIABLES objs, plot, opts, viewer, curve, attempt, nHooks, hist, redraws, nOps

vars == <<objs, plot, opts, viewer, curve, attempt, nHooks, hist, redraws, nOps>>

\* ------------------------------------------------------------------ bounds

\* Number of user operations (widget edits, assignments, manual event calls)
\* explored after the cells ran.
MaxOps == 2

\* How far beyond a declared bound the attempted numeric values reach.
Over == 1

\* ------------------------------------------------- the StyleOptions class

\* param.Magnitude(default=0.8): a number in [0.0, 1.0], in tenths.
AlphaDefault == 8
AlphaLo == 0
AlphaHi == 10

\* param.ObjectSelector(default='red', objects=['red', 'green', 'blue'])
ColorDefault == "red"
Colors == {"red", "green", "blue"}

\* param.Number(default=1, bounds=(0, 10))
LineWidthDefault == 1
LineWidthLo == 0
LineWidthHi == 10

Params == {"alpha", "color", "line_width"}

\* Bug variant: the upper bound taken as exclusive.
MagnitudeValidExclusive(v) == v >= AlphaLo /\ v < AlphaHi

\* Magnitude: inclusive bounds (0.0, 1.0).
MagnitudeValid(v) == v >= AlphaLo /\ v <= AlphaHi

\* Bug variant: a selector that does not check on set.
SelectorValidUnchecked(v) == TRUE

\* ObjectSelector with a non-empty objects list checks membership on set.
SelectorValid(v) == v \in Colors

\* Bug variant: only the upper bound is checked.
NumberValidNoLower(v) == v <= LineWidthHi

\* Number with bounds=(0, 10): both bounds inclusive.
NumberValid(v) == v >= LineWidthLo /\ v <= LineWidthHi

\* The validation a parameter of StyleOptions applies when it is set.
Valid(p, v) ==
    CASE p = "alpha" -> MagnitudeValid(v)
      [] p = "color" -> SelectorValid(v)
      [] p = "line_width" -> NumberValid(v)

\* StyleOptions(): a new instance holding the declared defaults.
StyleOptions ==
    [alpha |-> AlphaDefault, color |-> ColorDefault, line_width |-> LineWidthDefault]

\* Values a statement can try to assign to parameter p.
Inputs(p) ==
    CASE p = "alpha" ->
            {AlphaLo - Over, AlphaLo, AlphaDefault, AlphaHi, AlphaHi + Over}
      [] p = "color" -> Colors \cup {"purple"}
      [] p = "line_width" ->
            {LineWidthLo - Over, LineWidthLo, LineWidthDefault, LineWidthHi,
             LineWidthHi + Over}

\* Values a generated widget can deliver: a slider spans the parameter's
\* bounds, a dropdown lists the selector's objects.
WidgetRange(p) == {v \in Inputs(p) : Valid(p, v)}

\* -------------------------------------------------------------- the cells

\* 1: parambokeh display cell, 2: paramnb display cell,
\* 3: linking cell (paramnb),  4: layout cell (parambokeh).
Cells == 1..4

\* The arguments each cell passes to Widgets(...).
WidgetArgs(c) ==
    CASE c = 1 -> [backend |-> "parambokeh", callback |-> FALSE]
      [] c = 2 -> [backend |-> "paramnb", callback |-> FALSE]
      [] c = 3 -> [backend |-> "paramnb", callback |-> TRUE]
      [] c = 4 -> [backend |-> "parambokeh", callback |-> TRUE]

\* Bug variant: line_width is not passed on (the declared default is used).
contentsNoWidth(o) ==
    [alpha |-> o.alpha, color |-> o.color, line_width |-> LineWidthDefault]

\* Stream.contents: the parameter values passed to subscribers as kwargs.
contents(o) ==
    [alpha |-> o.alpha, color |-> o.color, line_width |-> o.line_width]

\* lambda **kwargs: curve.opts(style=kwargs)
\* The global name curve is looked up when the lambda runs (cv); opts returns
\* a restyled clone, which is what the DynamicMap displays.
StyleCallback(cv, kwargs) == [curve |-> cv, style |-> kwargs]

\* Bug variant: the value is set on the class, so every instance sees it.
SetAttrOnClass(os, c, p, v) == [d \in DOMAIN os |-> [os[d] EXCEPT ![p] = v]]

\* Parameterized attribute assignment on one instance (after validation).
SetAttr(os, c, p, v) == [os EXCEPT ![c][p] = v]

\* Bug variant: the value is stored before the validation raises.
RejectedAfterStore(os, c, p, v) == [os EXCEPT ![c][p] = v]

\* What the assignment of an invalid value leaves behind: the error is
\* raised before anything is stored.
Rejected(os, c, p, v) == os

\* Stream.update(**kwargs) as called by event: sets each given parameter.
update(os, c, p, v) ==
    IF Valid(p, v) THEN SetAttr(os, c, p, v) ELSE Rejected(os, c, p, v)

\* Bug variant: the subscriber is called with the contents read before the
\* handler's update, so each redraw lags one edit behind.
triggerStale(ps, os, c, cv) ==
    IF c \in DOMAIN ps
    THEN [ps EXCEPT ![c] = StyleCallback(cv, contents(objs[c]))]
    ELSE ps

\* Stream.trigger: every subscriber of instance c is called with the
\* instance's contents. A rendered DynamicMap subscribes its plot's refresh.
trigger(ps, os, c, cv) ==
    IF c \in DOMAIN ps
    THEN [ps EXCEPT ![c] = StyleCallback(cv, contents(os[c]))]
    ELSE ps

\* Bug variant: the panel behaves as in button mode, where changes wait for
\* a button press and the callback is not called per edit.
executeButtonMode(c) == FALSE

\* Bug variant: the stream's event is called whether or not a callback was
\* given.
executeAlways(c) == TRUE

\* The widget handler's execute step: it calls the callback the panel was
\* created with, if any.
execute(c) == WidgetArgs(c).callback

\* The instance a global name refers to (0: not yet bound).
Deref(n) == IF n = "opts" THEN opts ELSE viewer

NoAttempt == [via |-> "none", inst |-> 0, param |-> "", num |-> 0, str |-> "",
              accepted |-> FALSE]

\* The record of the assignment a step attempted.
Attempt(via, c, p, v, ok) ==
    [via |-> via, inst |-> c, param |-> p,
     num |-> IF p = "color" THEN 0 ELSE v,
     str |-> IF p = "color" THEN v ELSE "",
     accepted |-> ok]

Init ==
    /\ objs = <<>>
    /\ plot = <<>>
    /\ opts = 0
    /\ viewer = 0
    /\ curve = 0
    /\ attempt = NoAttempt
    /\ nHooks = <<>>
    /\ hist = <<>>
    /\ redraws = <<>>
    /\ nOps = 0

\* opts = StyleOptions(); <backend>.Widgets(opts)
\* The cells run once each, top to bottom; the user may operate the panels
\* already displayed between two cells.
Construct(c) ==
    /\ c \notin DOMAIN objs
    /\ \A d \in 1..(c-1) : d \in DOMAIN objs
    /\ objs' = objs @@ (c :> StyleOptions)
    /\ nHooks' = nHooks @@ (c :> 0)
    /\ hist' = hist @@ (c :> <<>>)
    /\ redraws' = redraws @@ (c :> <<>>)
    /\ attempt' = NoAttempt
    /\ UNCHANGED nOps

\* Cell "ParamBokeh": opts = StyleOptions(); parambokeh.Widgets(opts)
DisplayParamBokeh ==
    /\ Construct(1)
    /\ opts' = 1
    /\ UNCHANGED <<plot, viewer, curve>>

\* Cell "ParamNB": opts = StyleOptions(); paramnb.Widgets(opts)
DisplayParamNB ==
    /\ Construct(2)
    /\ opts' = 2
    /\ UNCHANGED <<plot, viewer, curve>>

\* Cell "Linking parameters as streams": the DynamicMap is displayed, which
\* renders it once with the stream's contents and subscribes the plot.
LinkingCell ==
    /\ Construct(3)
    /\ opts' = 3
    /\ curve' = 3
    /\ plot' = plot @@ (3 :> StyleCallback(3, contents(StyleOptions)))
    /\ UNCHANGED viewer

\* Cell "Laying out plots and widgets": get_plot renders the DynamicMap.
LayoutCell ==
    /\ Construct(4)
    /\ viewer' = 4
    /\ curve' = 4
    /\ plot' = plot @@ (4 :> StyleCallback(4, contents(StyleOptions)))
    /\ UNCHANGED opts

\* The user moves a slider or picks a dropdown entry of cell c's panel: the
\* handler sets the parameter and, without error, executes the callback
\* (opts.event(**{p: v}): update, then trigger).
WidgetEdit(c, p, v) ==
    /\ nOps < MaxOps
    /\ c \in DOMAIN objs
    /\ v \in WidgetRange(p)
    /\ v # objs[c][p]
    /\ LET ok == Valid(p, v)
           o1 == update(objs, c, p, v)
           fire == ok /\ execute(c)
           o2 == IF fire THEN update(o1, c, p, v) ELSE o1
           p2 == IF fire THEN trigger(plot, o2, c, curve) ELSE plot
       IN /\ objs' = o2
          /\ plot' = p2
          /\ nHooks' = [nHooks EXCEPT ![c] = IF fire THEN @ + 1 ELSE @]
          /\ attempt' = Attempt("widget", c, p, v, ok)
          /\ hist' = [hist EXCEPT ![c] =
                        IF ok
                        THEN Append(@, [op |-> "edit", param |-> p, vals |-> o1[c]])
                        ELSE @]
          /\ redraws' = [redraws EXCEPT ![c] =
                        IF fire /\ c \in DOMAIN plot
                        THEN Append(@, [by |-> "edit", style |-> p2[c].style])
                        ELSE @]
    /\ nOps' = nOps + 1
    /\ UNCHANGED <<opts, viewer, curve>>

\* A statement  <name>.<p> = v  run by the user: validated, no notification.
Assign(n, p, v) ==
    /\ nOps < MaxOps
    /\ Deref(n) # 0
    /\ v \in Inputs(p)
    /\ LET c == Deref(n)
           ok == Valid(p, v)
       IN /\ objs' = update(objs, c, p, v)
          /\ attempt' = Attempt("assign", c, p, v, ok)
          /\ hist' = [hist EXCEPT ![c] =
                        IF ok
                        THEN Append(@, [op |-> "assign", param |-> p, vals |-> objs'[c]])
                        ELSE @]
    /\ nOps' = nOps + 1
    /\ UNCHANGED <<plot, opts, viewer, curve, nHooks, redraws>>

\* A statement  <name>.event()  run by the user: trigger without update.
Event(n) ==
    /\ nOps < MaxOps
    /\ Deref(n) # 0
    /\ LET c == Deref(n)
           p2 == trigger(plot, objs, c, curve)
       IN /\ plot' = p2
          /\ nHooks' = [nHooks EXCEPT ![c] = @ + 1]
          /\ redraws' = [redraws EXCEPT ![c] =
                        IF c \in DOMAIN plot
                        THEN Append(@, [by |-> "event", style |-> p2[c].style])
                        ELSE @]
    /\ attempt' = NoAttempt
    /\ nOps' = nOps + 1
    /\ UNCHANGED <<objs, opts, viewer, curve, hist>>

Next ==
    \/ DisplayParamBokeh
    \/ DisplayParamNB
    \/ LinkingCell
    \/ LayoutCell
    \/ \E c \in Cells, p \in Params : \E v \in WidgetRange(p) : WidgetEdit(c, p, v)
    \/ \E n \in {"opts", "viewer"}, p \in Params : \E v \in Inputs(p) : Assign(n, p, v)
    \/ \E n \in {"opts", "viewer"} : Event(n)

Spec == Init /\ [][Next]_vars

\* ------------------------------------------------------------- properties

\* The three parameter values instance c holds, key by key.
Values(c) ==
    [alpha |-> objs[c].alpha, color |-> objs[c].color,
     line_width |-> objs[c].line_width]

\* The same after the step.
ValuesNext(c) ==
    [alpha |-> objs'[c].alpha, color |-> objs'[c].color,
     line_width |-> objs'[c].line_width]

\* The step is a widget edit of cell c's panel.
WidgetStep(c) ==
    /\ nOps' = nOps + 1
    /\ attempt'.via = "widget"
    /\ attempt'.inst = c

\* The step is an assignment attempt (by widget or statement) that raised.
RejectedStep ==
    /\ nOps' = nOps + 1
    /\ attempt'.via # "none"
    /\ ~attempt'.accepted

\* The step invoked the notification hook of instance c.
HookStep(c) == nHooks'[c] > nHooks[c]

\* C1: an attempt to set alpha is accepted exactly when the value lies in
\* [0, 1] (0 and 1 included); an accepted value is the one the instance then
\* holds, and alpha never holds anything outside [0, 1].
C1_AlphaOnlyInUnitInterval ==
    /\ attempt.param = "alpha" =>
         /\ attempt.accepted <=> (attempt.num >= 0 /\ attempt.num <= 10)
         /\ attempt.accepted => objs[attempt.inst].alpha = attempt.num
    /\ \A c \in DOMAIN objs : objs[c].alpha >= 0 /\ objs[c].alpha <= 10

\* C1 witness: alpha = 1.1 was attempted and rejected.
C1_Witness ==
    /\ attempt.param = "alpha"
    /\ attempt.num > 10
    /\ ~attempt.accepted

\* C2: an attempt to set color is accepted exactly when the string is one of
\* 'red', 'green', 'blue'; an accepted string is the one the instance holds.
C2_ColorOnlyFromObjects ==
    attempt.param = "color" =>
        /\ attempt.accepted <=> attempt.str \in {"red", "green", "blue"}
        /\ attempt.accepted => objs[attempt.inst].color = attempt.str

\* C2 witness: color = 'purple' was attempted and rejected.
C2_Witness ==
    /\ attempt.param = "color"
    /\ attempt.str = "purple"
    /\ ~attempt.accepted

\* C3: every step that invokes the hook of an instance bound to a DynamicMap
\* leaves the plot's style equal to the instance's values of alpha, color
\* and line_width as they are when the hook has fired.
C3_HookUpdatesStyle ==
    [][\A c \in DOMAIN plot : HookStep(c) => plot'[c].style = ValuesNext(c)]_vars

\* C3 witness: a hook invocation followed a value change that was made
\* without one, and the plot shows the changed values.
C3_Witness ==
    \E c \in DOMAIN plot :
        /\ nHooks[c] > 0
        /\ Len(hist[c]) > 0
        /\ hist[c][1].op = "assign"
        /\ Values(c) # StyleOptions
        /\ plot[c].style = Values(c)

C5_ValuesInDomain ==
    \A c \in DOMAIN objs :
        /\ objs[c].alpha >= 0 /\ objs[c].alpha <= 10
        /\ objs[c].color \in {"red", "green", "blue"}
        /\ objs[c].line_width >= 0 /\ objs[c].line_width <= 10

\* C5 witness: an instance changed by an accepted assignment has then seen a
\* rejected one.
C5_Witness ==
    /\ attempt.via # "none"
    /\ ~attempt.accepted
    /\ objs[attempt.inst] # StyleOptions

\* C7: a widget edit or a hook invocation on one instance leaves the values
\* of every other instance and the style of every other instance's plot
\* unchanged.
C7_OtherInstancesUntouched ==
    [][\A c \in DOMAIN objs :
        (WidgetStep(c) \/ HookStep(c)) =>
            \A d \in DOMAIN objs \ {c} :
                /\ objs'[d] = objs[d]
                /\ d \in DOMAIN plot => plot'[d].style = plot[d].style]_vars

\* C7 witness: the first display cell's panel was edited after the name opts
\* had been rebound to the linking cell's instance.
C7_Witness ==
    /\ opts = 3
    /\ attempt.via = "widget"
    /\ attempt.inst = 1
    /\ attempt.accepted
    /\ objs[1] # StyleOptions
    /\ objs[3] = StyleOptions
    /\ plot[3].style = StyleOptions

\* The values left by the widget edits of instance c, in order.
EditLog(c) ==
    LET IsEdit(h) == h.op = "edit"
        es == SelectSeq(hist[c], IsEdit)
    IN [i \in 1..Len(es) |-> es[i].vals]

\* The styles drawn by the redraws that widget edits of instance c caused.
EditRedrawLog(c) ==
    LET ByEdit(r) == r.by = "edit"
        rs == SelectSeq(redraws[c], ByEdit)
    IN [i \in 1..Len(rs) |-> rs[i].style]

\* Positions in c's history of the widget edits of parameter p.
EditsOf(c, p) ==
    {i \in 1..Len(hist[c]) : hist[c][i].op = "edit" /\ hist[c][i].param = p}

\* The value the last widget edit of p gave it.
LastEdited(c, p) ==
    LET i == CHOOSE i \in EditsOf(c, p) : \A j \in EditsOf(c, p) : j <= i
    IN hist[c][i].vals[p]

\* Instance c was changed by widget edits only.
OnlyEdited(c) == \A i \in 1..Len(hist[c]) : hist[c][i].op = "edit"

C9_RejectedChangesNothing ==
    [][RejectedStep => (objs' = objs /\ nHooks' = nHooks /\ plot' = plot)]_vars

\* C9 witness: an assignment was rejected on an instance that is linked to a
\* plot and no longer holds the defaults.
C9_Witness ==
    /\ attempt.via = "assign"
    /\ ~attempt.accepted
    /\ attempt.inst \in DOMAIN plot
    /\ objs[attempt.inst] # StyleOptions

====
